---- MODULE Spec2Model ----
(***************************************************************************)
(* A model of synch_to_mp3.py: the tag canonicalizer (field <-> frame      *)
(* translation, number/total merge and split) and the reconciliation       *)
(* engine (scan of both trees, diff into seven action collections, apply   *)
(* in seven stages).                                                       *)
(*                                                                         *)
(* Strings whose characters matter (tag values) are sequences of one-      *)
(* character strings, so that '/' can be found, joined and split on.       *)
(***************************************************************************)
EXTENDS Integers, Sequences, FiniteSets, TLC

VARIABLES
    \* ---- tag canonicalizer (specification SpecTag)
    tpc,        \* "start" | "written" | "back" | "read" | "error"
    tfields,    \* the field set handed to copy_tag_dict_to_mp3
    tframes,    \* the frame container (mp3_thing.tags), in insertion order
    tinit,      \* the container as it was before the write
    tback,      \* the result of id3_tags_as_dict
    terr        \* the exception that ended the conversion, "" if none

tagvars == <<tpc, tfields, tframes, tinit, tback, terr>>

VARIABLES
    \* ---- reconciliation engine (specification Spec)
    src,        \* the source tree (path_left): path -> node
    tgt,        \* the target tree (path_right): path -> node
    tgt0,       \* the target tree as it was when the run scanned it
    pc,         \* "start", one of the seven stages, "done" or "aborted"
    comp,       \* the CompResult object: both snapshots and the seven collections
    trace,      \* the calls made on the outside world, in order
    clock,      \* the time a write stamps on the file it writes
    run,        \* the number of runs started
    exc         \* the exception that aborted the run, "" if none

syncvars == <<src, tgt, tgt0, pc, comp, trace, clock, run, exc>>

vars == <<tagvars, syncvars>>

(***************************************************************************)
(* Bounds                                                                  *)
(***************************************************************************)
MaxVals == 2        \* values per field
MaxFields == 2      \* fields per field set
MaxNodes == 4       \* files and directories in the two initial trees together
MaxTime == 3        \* modification times of the source's files: 1..MaxTime
MaxRuns == 2        \* runs of the program, one after the other

(***************************************************************************)
(* Configuration (src lines 54-76)                                         *)
(***************************************************************************)
vorbis_to_id3_map ==
    [artist |-> "TPE1", title |-> "TIT2", album |-> "TALB",
     albumartist |-> "TPE2", tracknumber |-> "TRCK", discnumber |-> "TPOS",
     composer |-> "TCOM", conductor |-> "TPE3", remixer |-> "TPE4",
     date |-> "TDRC", comment |-> "COMM", genre |-> "TCON",
     language |-> "TLAN", bpm |-> "TBPM"]

id3_frames_to_ignore == {"TSSE"}

\* "Set silent to True if you want nothing on screen" (line 32)
silent == FALSE

\* the inverse table built at the top of id3_tags_as_dict
id3_to_vorbis_map ==
    [f \in {vorbis_to_id3_map[k] : k \in DOMAIN vorbis_to_id3_map} |->
        CHOOSE k \in DOMAIN vorbis_to_id3_map : vorbis_to_id3_map[k] = f]

(***************************************************************************)
(* Strings as character sequences                                          *)
(***************************************************************************)
Slash == "/"

HasSlash(s) == \E i \in 1..Len(s) : s[i] = Slash

\* f'{a}/{b}'
JoinSlash(a, b) == a \o <<Slash>> \o b

\* s.split('/'): the pieces between the separators, in order
RECURSIVE SplitFrom(_, _, _)
SplitFrom(s, i, cur) ==
    IF i > Len(s) THEN <<cur>>
    ELSE IF s[i] = Slash THEN <<cur>> \o SplitFrom(s, i + 1, <<>>)
    ELSE SplitFrom(s, i + 1, Append(cur, s[i]))

Split(s) == SplitFrom(s, 1, <<>>)

(***************************************************************************)
(* Frames and frame containers.  A frame is [FrameID, attrs, desc, text];   *)
(* attrs names the attributes its frame type has ("desc", "text"): reading  *)
(* another one raises AttributeError.  A container is a sequence of frames  *)
(* with distinct hash keys, in insertion order (a Python dict).             *)
(***************************************************************************)
HasDesc(fr) == "desc" \in fr.attrs

HasText(fr) == "text" \in fr.attrs

\* the key of a frame in its container: 'TXXX:desc', 'APIC:desc', 'TPE1'
HashKey(fr) ==
    IF HasDesc(fr) THEN <<fr.FrameID, fr.desc>> ELSE <<fr.FrameID, "">>

Keys(c) == {HashKey(c[i]) : i \in 1..Len(c)}

Lookup(c, k) == c[CHOOSE i \in 1..Len(c) : HashKey(c[i]) = k]

\* ID3.add: replace the frame with the same hash key in place, else append
Add(c, fr) ==
    IF HashKey(fr) \in Keys(c)
    THEN [i \in 1..Len(c) |-> IF HashKey(c[i]) = HashKey(fr) THEN fr ELSE c[i]]
    ELSE Append(c, fr)

\* ID3.delall
DelAll(c, k) == SelectSeq(c, LAMBDA fr : HashKey(fr) # k)

TextFrame(id, text) == [FrameID |-> id, attrs |-> {"text"}, desc |-> "", text |-> text]

TXXX(desc, text) ==
    [FrameID |-> "TXXX", attrs |-> {"desc", "text"}, desc |-> desc, text |-> text]

\* a private frame: neither a description nor a text
PRIV == [FrameID |-> "PRIV", attrs |-> {}, desc |-> "", text |-> <<>>]

\* an attached picture: a description and no text
APIC(desc) == [FrameID |-> "APIC", attrs |-> {"desc"}, desc |-> desc, text |-> <<>>]

\* what LAME leaves in a file it has just encoded
LameTags == <<TextFrame("TSSE", <<<<"1">>>>)>>

get_id3_frame(tag_name, tag_value) ==
    IF tag_name \in DOMAIN vorbis_to_id3_map
    THEN TextFrame(vorbis_to_id3_map[tag_name], tag_value)
    ELSE TXXX(tag_name, tag_value)

(***************************************************************************)
(* Field sets: functions from field names to non-empty value lists.        *)
(***************************************************************************)
EmptyDict == [k \in {} |-> <<>>]

Put(d, k, v) == [x \in (DOMAIN d) \cup {k} |-> IF x = k THEN v ELSE d[x]]

\* the order in which a field set's items are visited
FieldOrder ==
    <<"artist", "tracknumber", "tracktotal", "discnumber", "disctotal", "mood">>

Result(err, val) == [err |-> err, val |-> val]

NoError == ""

(***************************************************************************)
(* xx_total_correct, the frame-container branch (lines 116-130): a number  *)
(* frame and a TXXX total frame become one 'N/M' number frame, made of the *)
(* first value of each.                                                    *)
(***************************************************************************)
MergeTotal(c, totalName, numId) ==
    IF {<<"TXXX", totalName>>, <<numId, "">>} \subseteq Keys(c)
    THEN LET numb == Lookup(c, <<numId, "">>).text
             tot  == Lookup(c, <<"TXXX", totalName>>).text
         IN  IF Len(numb) = 0 \/ Len(tot) = 0 THEN Result("IndexError", c)
             ELSE Result(NoError,
                         DelAll(Add(c, TextFrame(numId, <<JoinSlash(numb[1], tot[1])>>)),
                                <<"TXXX", totalName>>))
    ELSE Result(NoError, c)

xx_total_correct_id3(c) ==
    LET r1 == MergeTotal(c, "tracktotal", "TRCK")
    IN  IF r1.err # NoError THEN r1 ELSE MergeTotal(r1.val, "disctotal", "TPOS")

(***************************************************************************)
(* xx_total_correct, the dict branch (lines 132-144): a number field whose *)
(* first value contains '/' is split into number and total; the unpacking  *)
(* into two names raises ValueError unless there are exactly two pieces.   *)
(***************************************************************************)
SplitTotal(d, numName, totalName) ==
    IF numName \in DOMAIN d
    THEN IF Len(d[numName]) = 0 THEN Result("IndexError", d)
         ELSE IF HasSlash(d[numName][1])
         THEN LET parts == Split(d[numName][1])
              IN  IF Len(parts) # 2 THEN Result("ValueError", d)
                  ELSE Result(NoError,
                              Put(Put(d, numName, <<parts[1]>>), totalName, <<parts[2]>>))
         ELSE Result(NoError, d)
    ELSE Result(NoError, d)

xx_total_correct_dict(d) ==
    LET r1 == SplitTotal(d, "tracknumber", "tracktotal")
    IN  IF r1.err # NoError THEN r1 ELSE SplitTotal(r1.val, "discnumber", "disctotal")

(***************************************************************************)
(* copy_tag_dict_to_mp3 (lines 150-160): one frame per field added to the  *)
(* container, then the number/total merge; the container is saved.         *)
(***************************************************************************)
RECURSIVE AddFields(_, _, _)
AddFields(c, d, i) ==
    IF i > Len(FieldOrder) THEN c
    ELSE IF FieldOrder[i] \in DOMAIN d
    THEN AddFields(Add(c, get_id3_frame(FieldOrder[i], d[FieldOrder[i]])), d, i + 1)
    ELSE AddFields(c, d, i + 1)

copy_tag_dict_to_mp3(c, tag_dict) == xx_total_correct_id3(AddFields(c, tag_dict, 1))

(***************************************************************************)
(* id3_tags_as_dict (lines 163-196).  The warning line formats             *)
(* id3_tags['TPE1'] and id3_tags['TIT2'], a KeyError when either is absent.*)
(***************************************************************************)
WarnRaises(c) == ~({<<"TPE1", "">>, <<"TIT2", "">>} \subseteq Keys(c))

\* acc = [err, val (the dict so far), warned (frames skipped with a warning)]
RECURSIVE ReadFrames(_, _, _)
ReadFrames(c, i, acc) ==
    IF i > Len(c) \/ acc.err # NoError THEN acc
    ELSE LET fr == c[i]
             mapped == fr.FrameID \in DOMAIN id3_to_vorbis_map
             skip == [acc EXCEPT !.warned = @ + 1]
             fail == [acc EXCEPT !.err = "KeyError"]
         IN  IF ~mapped /\ fr.FrameID \in id3_frames_to_ignore
             THEN ReadFrames(c, i + 1, acc)
             ELSE IF ~mapped /\ ~HasDesc(fr)
             THEN ReadFrames(c, i + 1, IF WarnRaises(c) THEN fail ELSE skip)
             ELSE IF ~HasText(fr)
             THEN ReadFrames(c, i + 1, IF WarnRaises(c) THEN fail ELSE skip)
             ELSE LET key == IF mapped THEN id3_to_vorbis_map[fr.FrameID] ELSE fr.desc
                  IN  ReadFrames(c, i + 1, [acc EXCEPT !.val = Put(@, key, fr.text)])

id3_tags_as_dict(c) ==
    LET r == ReadFrames(c, 1, [err |-> NoError, val |-> EmptyDict, warned |-> 0])
    IN  IF r.err # NoError THEN r
        ELSE LET x == xx_total_correct_dict(r.val)
             IN  [err |-> x.err, val |-> x.val, warned |-> r.warned]

(***************************************************************************)
(* The two trees.  A path is a sequence of names relative to the root; a   *)
(* tree maps every path of the universe to a node.  A file named a.flac,   *)
(* a.mp3 or a.MP3 is an audio file; any other file is an "other" file; a   *)
(* directory named ign is ignored.  d and ign can be a file or a           *)
(* directory.  <<"d","d">> and <<"ign","ign">> are never in an initial     *)
(* tree: they are where copy2 puts a file whose destination is a directory.*)
(***************************************************************************)
dirs_to_ignore == {"ign"}

Paths ==
    {<<"a.MP3">>, <<"a.flac">>, <<"a.mp3">>, <<"d">>, <<"e">>, <<"ign">>,
     <<"d", "d">>, <<"d", "e">>, <<"d", "ign">>, <<"d", "n">>,
     <<"ign", "ign">>, <<"ign", "n">>}

\* the order in which scandir yields the entries of a directory
ScanOrder == <<"a.MP3", "a.flac", "a.mp3", "d", "e", "ign", "n">>

NoNode == [kind |-> "none", mtime |-> 0, tags |-> <<>>]

DirNode == [kind |-> "dir", mtime |-> 0, tags |-> <<>>]

FileNode(mtime, tags) == [kind |-> "file", mtime |-> mtime, tags |-> tags]

NodeAt(tree, p) == IF p \in Paths THEN tree[p] ELSE NoNode

Kind(tree, p) == IF p = <<>> THEN "dir" ELSE NodeAt(tree, p).kind

Parent(p) == SubSeq(p, 1, Len(p) - 1)

BaseName(p) == p[Len(p)]

Children(tree, p) ==
    {q \in Paths : Len(q) = Len(p) + 1 /\ Parent(q) = p /\ tree[q].kind # "none"}

\* os.path.splitext of the universe's names
SplitExt(name) ==
    IF name = "a.flac" THEN <<"a", ".flac">>
    ELSE IF name = "a.mp3" THEN <<"a", ".mp3">>
    ELSE IF name = "a.MP3" THEN <<"a", ".MP3">>
    ELSE <<name, "">>

\* str.lower of an extension
Lower(ext) == IF ext = ".MP3" THEN ".mp3" ELSE ext

\* os.path.join(entry.name, x) for the keys of a sub-scan
JoinKeys(name, entries) ==
    [i \in 1..Len(entries) |-> [entries[i] EXCEPT !.key = <<name>> \o @]]

(***************************************************************************)
(* get_files_dirs (lines 220-247): the three maps of one tree, each as the *)
(* sequence of its items in insertion order, keys relative to `path`.      *)
(* No two audio files of one directory share a name without extension     *)
(* (line 18), so no key is inserted twice.                                 *)
(***************************************************************************)
RECURSIVE ScanEntries(_, _, _, _, _)
ScanEntries(tree, path, level, i, acc) ==
    IF i > Len(ScanOrder) THEN acc
    ELSE LET name == ScanOrder[i]
             node == NodeAt(tree, Append(path, name))
             sub  == ScanEntries(tree, Append(path, name), level + 1, 1,
                                 [music |-> <<>>, rest |-> <<>>, dirs |-> <<>>])
             se   == SplitExt(name)
         IN  IF node.kind = "dir"
             THEN IF name \in dirs_to_ignore
                  THEN ScanEntries(tree, path, level, i + 1, acc)
                  ELSE ScanEntries(tree, path, level, i + 1,
                         [music |-> acc.music \o JoinKeys(name, sub.music),
                          rest  |-> acc.rest \o JoinKeys(name, sub.rest),
                          dirs  |-> Append(acc.dirs, [key |-> <<name>>, level |-> level])
                                    \o JoinKeys(name, sub.dirs)])
             ELSE IF node.kind = "file"
             THEN IF Lower(se[2]) \in {".flac", ".mp3"}
                  THEN ScanEntries(tree, path, level, i + 1,
                         [acc EXCEPT !.music = Append(@,
                             [key |-> <<se[1]>>, ext |-> se[2], last_mod |-> node.mtime])])
                  ELSE ScanEntries(tree, path, level, i + 1,
                         [acc EXCEPT !.rest = Append(@,
                             [key |-> <<name>>, last_mod |-> node.mtime])])
             ELSE ScanEntries(tree, path, level, i + 1, acc)

get_files_dirs(tree) ==
    ScanEntries(tree, <<>>, 0, 1, [music |-> <<>>, rest |-> <<>>, dirs |-> <<>>])

\* a map given as the sequence of its items
KeysOf(m) == {m[i].key : i \in 1..Len(m)}

Item(m, k) == m[CHOOSE i \in 1..Len(m) : m[i].key = k]

KeySeq(m) == [i \in 1..Len(m) |-> m[i].key]

(***************************************************************************)
(* CompResult.__init__ (lines 250-290): the diff of the two snapshots.     *)
(***************************************************************************)
\* compare_files with the audio rule: only a newer source file is copied
compare_files_newer_only(rest_left, rest_right) ==
    [files_to_copy |->
        KeySeq(SelectSeq(rest_left, LAMBDA x :
            IF x.key \in KeysOf(rest_right)
            THEN x.last_mod > Item(rest_right, x.key).last_mod
            ELSE TRUE)),
     files_to_delete |->
        KeySeq(SelectSeq(rest_right, LAMBDA x : x.key \notin KeysOf(rest_left)))]

\* files_to_delete is a Python set; it is visited here in the target's order
compare_files(rest_left, rest_right) ==
    [files_to_copy |->
        KeySeq(SelectSeq(rest_left, LAMBDA x :
            IF x.key \in KeysOf(rest_right)
            THEN x.last_mod # Item(rest_right, x.key).last_mod
            ELSE TRUE)),
     files_to_delete |->
        KeySeq(SelectSeq(rest_right, LAMBDA x : x.key \notin KeysOf(rest_left)))]

\* compare_music without the test that a target key is absent from the source
compare_music_deletes_common(music_left, music_right) ==
    [music_to_delete |-> music_right,
     music_leftonly |->
        KeySeq(SelectSeq(music_left, LAMBDA x : x.key \notin KeysOf(music_right))),
     music_changed |->
        KeySeq(SelectSeq(music_left, LAMBDA x :
            /\ x.key \in KeysOf(music_right)
            /\ x.last_mod > Item(music_right, x.key).last_mod))]

\* compare_music with >= for >
compare_music_not_strict(music_left, music_right) ==
    [music_to_delete |->
        SelectSeq(music_right, LAMBDA x : x.key \notin KeysOf(music_left)),
     music_leftonly |->
        KeySeq(SelectSeq(music_left, LAMBDA x : x.key \notin KeysOf(music_right))),
     music_changed |->
        KeySeq(SelectSeq(music_left, LAMBDA x :
            /\ x.key \in KeysOf(music_right)
            /\ x.last_mod >= Item(music_right, x.key).last_mod))]

compare_music(music_left, music_right) ==
    [music_to_delete |->
        SelectSeq(music_right, LAMBDA x : x.key \notin KeysOf(music_left)),
     music_leftonly |->
        KeySeq(SelectSeq(music_left, LAMBDA x : x.key \notin KeysOf(music_right))),
     music_changed |->
        KeySeq(SelectSeq(music_left, LAMBDA x :
            /\ x.key \in KeysOf(music_right)
            /\ x.last_mod > Item(music_right, x.key).last_mod))]

CompResult(left, right) ==
    LET l == get_files_dirs(left)
        r == get_files_dirs(right)
        f == compare_files(l.rest, r.rest)
        m == compare_music(l.music, r.music)
    IN  [music_left |-> l.music, rest_left |-> l.rest, dirs_left |-> l.dirs,
         music_right |-> r.music, rest_right |-> r.rest, dirs_right |-> r.dirs,
         dirs_to_copy |-> SelectSeq(l.dirs, LAMBDA x : x.key \notin KeysOf(r.dirs)),
         dirs_to_delete |-> SelectSeq(r.dirs, LAMBDA x : x.key \notin KeysOf(l.dirs)),
         rest_to_copy |-> f.files_to_copy,
         rest_to_delete |-> f.files_to_delete,
         music_leftonly |-> m.music_leftonly,
         music_changed |-> m.music_changed,
         music_to_delete |-> m.music_to_delete]

NoComp ==
    [music_left |-> <<>>, rest_left |-> <<>>, dirs_left |-> <<>>,
     music_right |-> <<>>, rest_right |-> <<>>, dirs_right |-> <<>>,
     dirs_to_copy |-> <<>>, dirs_to_delete |-> <<>>, rest_to_copy |-> <<>>,
     rest_to_delete |-> <<>>, music_leftonly |-> <<>>, music_changed |-> <<>>,
     music_to_delete |-> <<>>]

(***************************************************************************)
(* The calls on the filesystem, each returning [exc, tree]: the exception  *)
(* it raises ("" if none) and the tree it leaves.                          *)
(***************************************************************************)
Prefixes(p) == {SubSeq(p, 1, k) : k \in 1..Len(p)}

\* os.makedirs(path): FileExistsError when the path exists, as a directory
\* or as a file; a parent that is a file fails the mkdir; missing parents
\* are created
MakeDirs(tree, p) ==
    IF Kind(tree, p) # "none" THEN [exc |-> "FileExistsError", tree |-> tree]
    ELSE IF \E q \in Prefixes(p) : Kind(tree, q) = "file"
    THEN [exc |-> "NotADirectoryError", tree |-> tree]
    ELSE [exc |-> NoError,
          tree |-> [q \in Paths |-> IF q \in Prefixes(p) THEN DirNode ELSE tree[q]]]

\* where shutil.copy2 writes: into dst when dst is a directory
CopyDest(tree, name, dst) ==
    IF Kind(tree, dst) = "dir" THEN Append(dst, name) ELSE dst

\* shutil.copy2(src, dst): content, tags and modification time of the
\* source file
Copy2(tree, node, name, dst) ==
    LET final == CopyDest(tree, name, dst)
    IN  IF Kind(tree, final) = "dir" THEN [exc |-> "IsADirectoryError", tree |-> tree]
        ELSE IF Kind(tree, Parent(final)) = "file"
        THEN [exc |-> "NotADirectoryError", tree |-> tree]
        ELSE IF Kind(tree, Parent(final)) # "dir" \/ final \notin Paths
        THEN [exc |-> "FileNotFoundError", tree |-> tree]
        ELSE [exc |-> NoError, tree |-> [tree EXCEPT ![final] = node]]

\* os.remove(path)
Remove(tree, p) ==
    IF Kind(tree, p) = "file"
    THEN [exc |-> NoError, tree |-> [tree EXCEPT ![p] = NoNode]]
    ELSE [exc |-> "FileNotFoundError", tree |-> tree]

\* os.rmdir(path): only of an empty directory
Rmdir(tree, p) ==
    IF Kind(tree, p) # "dir" THEN [exc |-> "FileNotFoundError", tree |-> tree]
    ELSE IF Children(tree, p) # {} THEN [exc |-> "OSError", tree |-> tree]
    ELSE [exc |-> NoError, tree |-> [tree EXCEPT ![p] = NoNode]]

\* the path of a key with an extension: f'{x}{ext}'
WithExt(key, ext) ==
    [i \in 1..Len(key) |->
        IF i < Len(key) THEN key[i]
        ELSE CHOOSE n \in {ScanOrder[j] : j \in 1..Len(ScanOrder)} :
                 SplitExt(n) = <<key[i], ext>>]

(***************************************************************************)
(* The apply stages.  A stage threads st = [src, tgt, trace, clock, exc]   *)
(* through its loop and stops at the first exception: src and tgt are the  *)
(* trees under path_left and path_right.  The trace holds one              *)
(* event [op, path, stage, res] per call on the outside world; op "log"    *)
(* is a call of print_if_not_silent.                                       *)
(***************************************************************************)
Emit(st, op, path, stage, res) ==
    [st EXCEPT !.trace = Append(@, [op |-> op, path |-> path, stage |-> stage, res |-> res])]

Raise(st, e) == [st EXCEPT !.exc = e]

\* print_if_not_silent (lines 87-89)
print_if_not_silent(st, path, stage, text) ==
    IF ~silent THEN Emit(st, "log", path, stage, text) ELSE st

\* _copy_dirs (lines 367-374): an existing path is passed over in silence
RECURSIVE copy_dirs(_, _, _)
copy_dirs(st, dirs_to_copy, i) ==
    IF i > Len(dirs_to_copy) \/ st.exc # NoError THEN st
    ELSE LET d == dirs_to_copy[i].key
             r == MakeDirs(st.tgt, d)
         IN  IF r.exc = "FileExistsError"
             THEN copy_dirs(Emit(st, "makedirs", d, 1, r.exc), dirs_to_copy, i + 1)
             ELSE IF r.exc # NoError
             THEN Raise(Emit(st, "makedirs", d, 1, r.exc), r.exc)
             ELSE copy_dirs(print_if_not_silent(
                                Emit([st EXCEPT !.tgt = r.tree], "makedirs", d, 1, "ok"),
                                d, 1, "created"),
                            dirs_to_copy, i + 1)

\* _copy_files (lines 354-359)
RECURSIVE copy_files(_, _, _, _)
copy_files(st, left, rest_to_copy, i) ==
    IF i > Len(rest_to_copy) \/ st.exc # NoError THEN st
    ELSE LET f  == rest_to_copy[i]
             s1 == print_if_not_silent(st, f, 2, "copying")
             r  == Copy2(s1.tgt, left[f], BaseName(f), f)
         IN  IF r.exc # NoError
             THEN Raise(Emit(s1, "copy_file", f, 2, r.exc), r.exc)
             ELSE copy_files(Emit([s1 EXCEPT !.tgt = r.tree], "copy_file",
                                  CopyDest(s1.tgt, BaseName(f), f), 2, "ok"),
                             left, rest_to_copy, i + 1)

\* flac_to_mp3 (lines 199-217).  The exit status of neither process is
\* looked at: when the encoder writes no file (encOk false, or no directory
\* to write into) the destination is whatever was there before.  An absent
\* or empty tag_dict is replaced by the tags of the input file.
flac_to_mp3(st, input, out, tag_dict, encOk, stage) ==
    LET wrote == encOk /\ Kind(st.tgt, Parent(out)) = "dir" /\ Kind(st.tgt, out) # "dir"
        t1 == IF wrote THEN [st.tgt EXCEPT ![out] = FileNode(st.clock, LameTags)]
              ELSE st.tgt
        s1 == Emit([st EXCEPT !.tgt = t1], "encode", out, stage,
                   IF wrote THEN "ok" ELSE "failed")
    IN  IF Kind(t1, out) # "file" THEN Raise(s1, "MutagenError")
        ELSE LET td == IF tag_dict = EmptyDict THEN input.tags ELSE tag_dict
                 r  == copy_tag_dict_to_mp3(t1[out].tags, td)
             IN  IF r.err # NoError THEN Raise(s1, r.err)
                 ELSE Emit([s1 EXCEPT !.tgt = [t1 EXCEPT ![out] = FileNode(s1.clock, r.val)],
                                      !.clock = @ + 1],
                           "encode_tags", out, stage, "ok")

\* the tags of a source file as _copy_music_changed reads them (lines 305-312)
TagsLeft(node, ext_left) ==
    IF Lower(ext_left) = ".flac" THEN [err |-> NoError, val |-> node.tags, warned |-> 0]
    ELSE id3_tags_as_dict(node.tags)

\* music_changed_one with the tags saved to the source file: music_thing_left
\* for music_thing_right in the call of copy_tag_dict_to_mp3
music_changed_one_saves_left(st, left, c, x, encOk) ==
    LET ext_left  == Item(c.music_left, x).ext
        node_left == left[WithExt(x, ext_left)]
        tl        == TagsLeft(node_left, ext_left)
        ext_right == Item(c.music_right, x).ext
        pr        == WithExt(x, ext_right)
        tr        == id3_tags_as_dict(st.tgt[pr].tags)
        s1        == Emit(st, "tag_read", pr, 3, "ok")
    IN  IF tl.err # NoError THEN Raise(st, tl.err)
        ELSE IF ext_right # ".mp3" THEN Raise(st, "AssertionError")
        ELSE IF Kind(st.tgt, pr) # "file" THEN Raise(st, "MutagenError")
        ELSE IF tr.err # NoError THEN Raise(s1, tr.err)
        ELSE IF tl.val # tr.val
        THEN LET s2 == print_if_not_silent(s1, pr, 3, "copying tags")
                 r  == copy_tag_dict_to_mp3(s2.tgt[pr].tags, tl.val)
             IN  IF r.err # NoError THEN Raise(s2, r.err)
                 ELSE Emit([s2 EXCEPT !.src = [@ EXCEPT ![WithExt(x, ext_left)] =
                                                   FileNode(s2.clock, node_left.tags)],
                                      !.clock = @ + 1],
                           "tag_write", pr, 3, "ok")
        ELSE IF Lower(ext_left) = ".flac"
        THEN flac_to_mp3(print_if_not_silent(s1, pr, 3, "encoding"), node_left, pr, tl.val, encOk, 3)
        ELSE LET s2 == print_if_not_silent(s1, pr, 3, "copying")
                 r  == Copy2(s2.tgt, node_left, BaseName(WithExt(x, ext_left)), pr)
             IN  IF r.exc # NoError THEN Raise(Emit(s2, "copy_music", pr, 3, r.exc), r.exc)
                 ELSE Emit([s2 EXCEPT !.tgt = r.tree], "copy_music", pr, 3, "ok")

\* one key of _copy_music_changed (lines 303-330)
music_changed_one(st, left, c, x, encOk) ==
    LET ext_left  == Item(c.music_left, x).ext
        node_left == left[WithExt(x, ext_left)]
        tl        == TagsLeft(node_left, ext_left)
        ext_right == Item(c.music_right, x).ext
        pr        == WithExt(x, ext_right)
        tr        == id3_tags_as_dict(st.tgt[pr].tags)
        s1        == Emit(st, "tag_read", pr, 3, "ok")
    IN  IF tl.err # NoError THEN Raise(st, tl.err)
        ELSE IF ext_right # ".mp3" THEN Raise(st, "AssertionError")
        ELSE IF Kind(st.tgt, pr) # "file" THEN Raise(st, "MutagenError")
        ELSE IF tr.err # NoError THEN Raise(s1, tr.err)
        ELSE IF tl.val # tr.val
        THEN LET s2 == print_if_not_silent(s1, pr, 3, "copying tags")
                 r  == copy_tag_dict_to_mp3(s2.tgt[pr].tags, tl.val)
             IN  IF r.err # NoError THEN Raise(s2, r.err)
                 ELSE Emit([s2 EXCEPT !.tgt = [@ EXCEPT ![pr] = FileNode(s2.clock, r.val)],
                                      !.clock = @ + 1],
                           "tag_write", pr, 3, "ok")
        ELSE IF Lower(ext_left) = ".flac"
        THEN flac_to_mp3(print_if_not_silent(s1, pr, 3, "encoding"), node_left, pr, tl.val, encOk, 3)
        ELSE LET s2 == print_if_not_silent(s1, pr, 3, "copying")
                 r  == Copy2(s2.tgt, node_left, BaseName(WithExt(x, ext_left)), pr)
             IN  IF r.exc # NoError THEN Raise(Emit(s2, "copy_music", pr, 3, r.exc), r.exc)
                 ELSE Emit([s2 EXCEPT !.tgt = r.tree], "copy_music", pr, 3, "ok")

RECURSIVE copy_music_changed(_, _, _, _, _)
copy_music_changed(st, left, c, i, encOk) ==
    IF i > Len(c.music_changed) \/ st.exc # NoError THEN st
    ELSE copy_music_changed(music_changed_one(st, left, c, c.music_changed[i], encOk),
                            left, c, i + 1, encOk)

\* music_leftonly_one with the source's extension kept in the destination
\* path: f'{x}{ext_left}' for f'{x}.mp3'
music_leftonly_one_keeps_ext(st, left, c, x, encOk) ==
    LET ext_left  == Item(c.music_left, x).ext
        pl        == WithExt(x, ext_left)
        dest      == WithExt(x, ext_left)
    IN  IF Lower(ext_left) = ".flac"
        THEN flac_to_mp3(print_if_not_silent(st, dest, 4, "encoding"), left[pl], dest,
                         EmptyDict, encOk, 4)
        ELSE LET s1 == print_if_not_silent(st, dest, 4, "copying")
                 r  == Copy2(s1.tgt, left[pl], BaseName(pl), dest)
             IN  IF r.exc # NoError THEN Raise(Emit(s1, "copy_music", dest, 4, r.exc), r.exc)
                 ELSE Emit([s1 EXCEPT !.tgt = r.tree], "copy_music", dest, 4, "ok")

\* one key of _copy_music_leftonly (lines 334-346)
music_leftonly_one(st, left, c, x, encOk) ==
    LET ext_left  == Item(c.music_left, x).ext
        pl        == WithExt(x, ext_left)
        dest      == WithExt(x, ".mp3")
    IN  IF Lower(ext_left) = ".flac"
        THEN flac_to_mp3(print_if_not_silent(st, dest, 4, "encoding"), left[pl], dest,
                         EmptyDict, encOk, 4)
        ELSE LET s1 == print_if_not_silent(st, dest, 4, "copying")
                 r  == Copy2(s1.tgt, left[pl], BaseName(pl), dest)
             IN  IF r.exc # NoError THEN Raise(Emit(s1, "copy_music", dest, 4, r.exc), r.exc)
                 ELSE Emit([s1 EXCEPT !.tgt = r.tree], "copy_music", dest, 4, "ok")

RECURSIVE copy_music_leftonly(_, _, _, _, _)
copy_music_leftonly(st, left, c, i, encOk) ==
    IF i > Len(c.music_leftonly) \/ st.exc # NoError THEN st
    ELSE copy_music_leftonly(music_leftonly_one(st, left, c, c.music_leftonly[i], encOk),
                             left, c, i + 1, encOk)

\* _remove_music (lines 348-352)
RECURSIVE remove_music(_, _, _)
remove_music(st, music_to_delete, i) ==
    IF i > Len(music_to_delete) \/ st.exc # NoError THEN st
    ELSE LET full_path == WithExt(music_to_delete[i].key, music_to_delete[i].ext)
             s1 == print_if_not_silent(st, full_path, 5, "deleting")
             r  == Remove(s1.tgt, full_path)
         IN  IF r.exc # NoError THEN Raise(Emit(s1, "remove_music", full_path, 5, r.exc), r.exc)
             ELSE remove_music(Emit([s1 EXCEPT !.tgt = r.tree], "remove_music", full_path, 5, "ok"),
                               music_to_delete, i + 1)

\* _remove_files (lines 361-365)
RECURSIVE remove_files(_, _, _)
remove_files(st, rest_to_delete, i) ==
    IF i > Len(rest_to_delete) \/ st.exc # NoError THEN st
    ELSE LET f  == rest_to_delete[i]
             s1 == print_if_not_silent(st, f, 6, "deleted")
             r  == Remove(s1.tgt, f)
         IN  IF r.exc # NoError THEN Raise(Emit(s1, "remove_file", f, 6, r.exc), r.exc)
             ELSE remove_files(Emit([s1 EXCEPT !.tgt = r.tree], "remove_file", f, 6, "ok"),
                               rest_to_delete, i + 1)

\* reversed(dirs_aslist)
Reversed(q) == [i \in 1..Len(q) |-> q[Len(q) + 1 - i]]

\* the order in which _remove_dirs visits dirs_to_delete (lines 377-378)
RemoveOrder(dirs_to_delete) == Reversed(KeySeq(dirs_to_delete))

\* _remove_dirs (lines 376-381)
RECURSIVE remove_dirs(_, _, _)
remove_dirs(st, order, i) ==
    IF i > Len(order) \/ st.exc # NoError THEN st
    ELSE LET d  == order[i]
             s1 == print_if_not_silent(st, d, 7, "removed")
             r  == Rmdir(s1.tgt, d)
         IN  IF r.exc # NoError THEN Raise(Emit(s1, "rmdir", d, 7, r.exc), r.exc)
             ELSE remove_dirs(Emit([s1 EXCEPT !.tgt = r.tree], "rmdir", d, 7, "ok"),
                              order, i + 1)

(***************************************************************************)
(* The initial trees.  The source's files carry any time in 1..MaxTime and *)
(* the target's files the time TgtTime, so that a file on both sides is    *)
(* older, as old or newer on the source.  A tree is well formed: every     *)
(* entry lies in a directory, and at most one audio file has the key a.    *)
(***************************************************************************)
Tags1 == [artist |-> <<<<"1">>>>]

Tags2 == [artist |-> <<<<"1">>>>, mood |-> <<<<"1">>>>]

TagDicts(side) == {Tags1, Tags2}

\* the time of the target's files: below MaxTime and above 1
TgtTime == MaxTime - 1

Times(side) == IF side = "left" THEN 1..MaxTime ELSE {TgtTime}

\* an mp3 file on the source was tagged as it is; one on the target was
\* encoded by LAME and then tagged
Mp3Tags(side, d) ==
    copy_tag_dict_to_mp3(IF side = "left" THEN <<>> ELSE LameTags, d).val

\* a.flac is a file of the source only, a.MP3 of the target only; a file
\* in an ignored directory is never looked at and carries the time TgtTime
NodeChoices(side, p) ==
    IF p = <<"a.flac">> /\ side = "left"
    THEN {NoNode} \cup {FileNode(t, d) : t \in Times(side), d \in TagDicts(side)}
    ELSE IF p = <<"a.mp3">> \/ (p = <<"a.MP3">> /\ side = "right")
    THEN {NoNode} \cup {FileNode(t, Mp3Tags(side, d)) : t \in Times(side), d \in TagDicts(side)}
    ELSE IF p \in {<<"d">>, <<"ign">>}
    THEN {NoNode, DirNode} \cup {FileNode(t, <<>>) : t \in Times(side)}
    ELSE IF p \in {<<"e">>, <<"d", "e">>, <<"d", "ign">>}
    THEN {NoNode, DirNode}
    ELSE IF p = <<"d", "n">>
    THEN {NoNode} \cup {FileNode(t, <<>>) : t \in Times(side)}
    ELSE IF p = <<"ign", "n">>
    THEN {NoNode, FileNode(TgtTime, <<>>)}
    ELSE {NoNode}

PathSeq ==
    <<<<"d">>, <<"e">>, <<"ign">>, <<"a.MP3">>, <<"a.flac">>, <<"a.mp3">>,
      <<"d", "e">>, <<"d", "ign">>, <<"d", "n">>, <<"ign", "n">>>>

NodeCount(tree) == Cardinality({p \in Paths : tree[p].kind # "none"})

WellFormed(tree) ==
    /\ \A p \in Paths : tree[p].kind # "none" => Kind(tree, Parent(p)) = "dir"
    /\ Cardinality({p \in {<<"a.MP3">>, <<"a.flac">>, <<"a.mp3">>} :
                        tree[p].kind # "none"}) <= 1

\* the well-formed trees of at most n entries, over the first i paths
RECURSIVE TreesUpTo(_, _, _)
TreesUpTo(side, n, i) ==
    IF i = 0 THEN {[p \in Paths |-> NoNode]}
    ELSE {t \in {[u EXCEPT ![PathSeq[i]] = c] :
                    u \in TreesUpTo(side, n, i - 1), c \in NodeChoices(side, PathSeq[i])} :
            WellFormed(t) /\ NodeCount(t) <= n}

Trees(side, n) == TreesUpTo(side, n, Len(PathSeq))

(***************************************************************************)
(* The program: comp = CompResult(path_left, path_right), then             *)
(* comp.synchronise(), stage by stage (lines 292-299, 384-386).            *)
(***************************************************************************)
TagIdle ==
    /\ tpc = "idle"
    /\ tfields = EmptyDict
    /\ tframes = <<>>
    /\ tinit = <<>>
    /\ tback = EmptyDict
    /\ terr = NoError

SyncIdle ==
    /\ src = [p \in Paths |-> NoNode]
    /\ tgt = [p \in Paths |-> NoNode]
    /\ tgt0 = [p \in Paths |-> NoNode]
    /\ pc = "idle"
    /\ comp = NoComp
    /\ trace = <<>>
    /\ clock = 0
    /\ run = 0
    /\ exc = NoError

Init ==
    /\ \E n \in 0..MaxNodes :
          /\ src \in Trees("left", n)
          /\ tgt \in Trees("right", MaxNodes - n)
    /\ tgt0 = tgt
    /\ pc = "start"
    /\ comp = NoComp
    /\ trace = <<>>
    /\ clock = MaxTime + 1
    /\ run = 0
    /\ exc = NoError
    /\ TagIdle

St ==
    [src |-> src, tgt |-> tgt, trace |-> trace, clock |-> clock, exc |-> exc]

\* synchronise with the directories removed before the files are
synchronise_dirs_first ==
    <<"copy_dirs", "copy_files", "copy_music_changed", "copy_music_leftonly",
      "remove_dirs", "remove_music", "remove_files">>

\* the order in which synchronise calls the stages (lines 292-299)
synchronise ==
    <<"copy_dirs", "copy_files", "copy_music_changed", "copy_music_leftonly",
      "remove_music", "remove_files", "remove_dirs">>

NextStage(this) ==
    LET i == CHOOSE j \in 1..Len(synchronise) : synchronise[j] = this
    IN  IF i = Len(synchronise) THEN "done" ELSE synchronise[i + 1]

\* the state a stage leaves; an exception ends the run
Stage(this, st) ==
    /\ pc = this
    /\ src' = st.src
    /\ tgt' = st.tgt
    /\ trace' = st.trace
    /\ clock' = st.clock
    /\ exc' = st.exc
    /\ pc' = IF st.exc = NoError THEN NextStage(this) ELSE "aborted"
    /\ UNCHANGED <<tgt0, comp, run, tagvars>>

\* comp = CompResult(path_left, path_right); a run starts on the trees the
\* run before it has left
Construct ==
    /\ pc \in {"start", "done"}
    /\ run < MaxRuns
    /\ comp' = CompResult(src, tgt)
    /\ tgt0' = tgt
    /\ trace' = <<>>
    /\ run' = run + 1
    /\ pc' = synchronise[1]
    /\ UNCHANGED <<src, tgt, clock, exc, tagvars>>

CopyDirs == Stage("copy_dirs", copy_dirs(St, comp.dirs_to_copy, 1))

CopyFiles == Stage("copy_files", copy_files(St, src, comp.rest_to_copy, 1))

CopyMusicChanged ==
    \E encOk \in BOOLEAN :
        Stage("copy_music_changed",
              copy_music_changed(St, src, comp, 1, encOk))

CopyMusicLeftonly ==
    \E encOk \in BOOLEAN :
        Stage("copy_music_leftonly",
              copy_music_leftonly(St, src, comp, 1, encOk))

RemoveMusic == Stage("remove_music", remove_music(St, comp.music_to_delete, 1))

RemoveFiles == Stage("remove_files", remove_files(St, comp.rest_to_delete, 1))

RemoveDirs == Stage("remove_dirs", remove_dirs(St, RemoveOrder(comp.dirs_to_delete), 1))

Next ==
    \/ Construct
    \/ CopyDirs
    \/ CopyFiles
    \/ CopyMusicChanged
    \/ CopyMusicLeftonly
    \/ RemoveMusic
    \/ RemoveFiles
    \/ RemoveDirs

Spec == Init /\ [][Next]_vars

(***************************************************************************)
(* The mirror over several runs (specification SpecMirror): the target     *)
(* starts empty, and between two runs the source is changed at will:       *)
(* files and directories added and removed, audio files re-tagged,         *)
(* touched, or replaced by a file of another audio extension.  A file put  *)
(* into the source is old (time 1) or of the time of the change.          *)
(***************************************************************************)
AudioPaths == {<<"a.MP3">>, <<"a.flac">>, <<"a.mp3">>}

\* the audio files that can be at a path of the source
SourceAudio(p, now) ==
    {FileNode(t, IF p = <<"a.flac">> THEN d ELSE Mp3Tags("left", d)) :
        t \in {1, now}, d \in TagDicts("left")}

\* the source trees at time now: at most one audio file of key a, d absent,
\* a directory or a file, and a file d/n
\* the trees with the node an at the audio path ap
SourceTreesWith(ap, an, now) ==
    {[p \in Paths |->
         IF p = ap THEN an
         ELSE IF p = <<"d">> THEN dn
         ELSE IF p = <<"d", "n">> THEN fn
         ELSE NoNode] :
         dn \in {NoNode, DirNode, FileNode(1, <<>>)},
         fn \in {NoNode, FileNode(1, <<>>), FileNode(now, <<>>)}}

SourceTrees(now) ==
    {t \in UNION {UNION {SourceTreesWith(ap, an, now) :
                              an \in {NoNode} \cup SourceAudio(ap, now)} :
                    ap \in AudioPaths} :
        WellFormed(t)}

InitMirror ==
    /\ src \in SourceTrees(MaxTime)
    /\ tgt = [p \in Paths |-> NoNode]
    /\ tgt0 = tgt
    /\ pc = "start"
    /\ comp = NoComp
    /\ trace = <<>>
    /\ clock = MaxTime + 1
    /\ run = 0
    /\ exc = NoError
    /\ TagIdle

\* the source is changed while the program is not running
ChangeSource ==
    /\ pc = "done"
    /\ run < MaxRuns
    /\ src' \in SourceTrees(clock) \ {src}
    /\ clock' = clock + 1
    /\ pc' = "start"
    /\ comp' = NoComp
    /\ trace' = <<>>
    /\ tgt0' = tgt
    /\ UNCHANGED <<tgt, run, exc, tagvars>>

NextMirror == Next \/ ChangeSource

SpecMirror == InitMirror /\ [][NextMirror]_vars

(***************************************************************************)
(* Claims about the reconciliation engine (specification Spec)             *)
(***************************************************************************)
Scanned == pc # "start"

SeqSet(q) == {q[i] : i \in 1..Len(q)}

Collections(c) ==
    <<c.dirs_to_copy, c.dirs_to_delete, c.rest_to_copy, c.rest_to_delete,
      c.music_to_delete, c.music_leftonly, c.music_changed>>

EmptyActionSet(c) == \A i \in 1..7 : Collections(c)[i] = <<>>

\* C1: when a run has completed and nothing else has changed either tree,
\* the scan and diff of the next run give seven empty collections.
C1_Idempotence == run >= 2 => EmptyActionSet(comp)

NoDuplicates(q) == \A i, j \in 1..Len(q) : q[i] = q[j] => i = j

LeftOnly == SeqSet(comp.music_leftonly)

Changed == SeqSet(comp.music_changed)

ToDelete == KeysOf(comp.music_to_delete)

CommonMusic == KeysOf(comp.music_left) \cap KeysOf(comp.music_right)

\* the target file of a key of the target's audio map
TargetFile(k) == WithExt(k, Item(comp.music_right, k).ext)

\* C2: the diff puts every audio key of either map in at most one of
\* music_leftonly, music_changed and music_to_delete (in none: unchanged),
\* once, and puts no other key in any of them.
C2_AudioPartition ==
    Scanned =>
        /\ LeftOnly \cap Changed = {}
        /\ LeftOnly \cap ToDelete = {}
        /\ Changed \cap ToDelete = {}
        /\ LeftOnly \cup Changed \cup ToDelete
               \subseteq KeysOf(comp.music_left) \cup KeysOf(comp.music_right)
        /\ NoDuplicates(comp.music_leftonly)
        /\ NoDuplicates(comp.music_changed)
        /\ NoDuplicates(KeySeq(comp.music_to_delete))

\* a completed run whose diff found a changed audio key
C2_Witness == pc = "done" /\ Changed # {}

\* C3: a key of both audio maps is in music_changed exactly when the source
\* file is strictly newer; when it is not, no call of the run names the
\* key's target file and the file stays as the scan found it.
C3_StrictChange ==
    Scanned =>
        \A k \in CommonMusic :
            LET newer == Item(comp.music_left, k).last_mod
                             > Item(comp.music_right, k).last_mod
            IN  /\ k \in Changed <=> newer
                /\ ~newer =>
                       /\ \A i \in 1..Len(trace) : trace[i].path # TargetFile(k)
                       /\ tgt[TargetFile(k)] = tgt0[TargetFile(k)]

\* a completed run that did something, with a key as old on both sides
C3_Witness ==
    /\ pc = "done"
    /\ trace # <<>>
    /\ \E k \in CommonMusic :
           Item(comp.music_left, k).last_mod = Item(comp.music_right, k).last_mod

StagesAfterCopyFiles ==
    {"copy_music_changed", "copy_music_leftonly", "remove_music", "remove_files",
     "remove_dirs", "done"}

CommonRest == KeysOf(comp.rest_left) \cap KeysOf(comp.rest_right)

\* C4: rest_to_copy is the source's other files that the target lacks or
\* holds with another time, older or newer; rest_to_delete is the target's
\* other files that the source lacks; once _copy_files is through, a file
\* of both sides whose times differed is the source's file.
C4_OtherFileRule ==
    Scanned =>
        /\ SeqSet(comp.rest_to_copy) =
               {k \in KeysOf(comp.rest_left) :
                    \/ k \notin KeysOf(comp.rest_right)
                    \/ Item(comp.rest_left, k).last_mod # Item(comp.rest_right, k).last_mod}
        /\ SeqSet(comp.rest_to_delete) = KeysOf(comp.rest_right) \ KeysOf(comp.rest_left)
        /\ pc \in StagesAfterCopyFiles =>
               \A k \in CommonRest :
                   Item(comp.rest_left, k).last_mod # Item(comp.rest_right, k).last_mod
                       => tgt[k] = src[k]

\* a completed run that overwrote a newer other file of the target
C4_Witness ==
    /\ pc = "done"
    /\ \E k \in CommonRest :
           /\ Item(comp.rest_left, k).last_mod < Item(comp.rest_right, k).last_mod
           /\ tgt[k] = src[k]
           /\ \E i \in 1..Len(trace) : trace[i].op = "copy_file" /\ trace[i].path = k

\* what a call does to the target: 1 creates a directory, 2 writes a file
\* (copy, encode, tag write), 3 deletes a file, 4 removes a directory,
\* 0 changes nothing
Category(op) ==
    IF op = "makedirs" THEN 1
    ELSE IF op \in {"copy_file", "copy_music", "encode", "encode_tags", "tag_write"} THEN 2
    ELSE IF op \in {"remove_music", "remove_file"} THEN 3
    ELSE IF op = "rmdir" THEN 4
    ELSE 0

\* C5: in the order of the calls, no call of a stage comes before a call of
\* an earlier stage, so that directory creations precede file writes, file
\* writes precede file deletions, and file deletions precede directory
\* removals.
C5_ApplyOrder ==
    \A i, j \in 1..Len(trace) :
        i < j =>
            /\ trace[i].stage <= trace[j].stage
            /\ (Category(trace[i].op) # 0 /\ Category(trace[j].op) # 0)
                   => Category(trace[i].op) <= Category(trace[j].op)

\* a completed run that created a directory, wrote a file, deleted a file
\* and removed a directory
C5_Witness ==
    /\ pc = "done"
    /\ \A c \in 1..4 :
           \E i \in 1..Len(trace) : Category(trace[i].op) = c /\ trace[i].res = "ok"

\* C6: no os.rmdir is attempted on a directory that still has an entry.
C6_RemoveOnlyEmptyDirs ==
    \A i \in 1..Len(trace) : trace[i].op = "rmdir" => trace[i].res # "OSError"

IsPrefix(p, q) == Len(p) <= Len(q) /\ SubSeq(q, 1, Len(p)) = p

\* the ignored directories of a tree, and the paths in and under them
IgnoredDirs(tree) ==
    {p \in Paths : tree[p].kind = "dir" /\ BaseName(p) \in dirs_to_ignore}

InIgnored(tree) == {q \in Paths : \E p \in IgnoredDirs(tree) : IsPrefix(p, q)}

LeftKeys ==
    KeysOf(comp.music_left) \cup KeysOf(comp.rest_left) \cup KeysOf(comp.dirs_left)
    \cup KeysOf(comp.dirs_to_copy) \cup SeqSet(comp.rest_to_copy)
    \cup LeftOnly \cup Changed

RightKeys ==
    KeysOf(comp.music_right) \cup KeysOf(comp.rest_right) \cup KeysOf(comp.dirs_right)
    \cup KeysOf(comp.dirs_to_delete) \cup SeqSet(comp.rest_to_delete) \cup ToDelete

\* C7: no key of a scanned map or of an action collection lies in an
\* ignored directory of the tree it was scanned from; the run puts nothing
\* on the target where the source has an ignored directory, and leaves
\* every ignored directory of the target, and all that is under it, as it
\* was.
C7_IgnoredUntouched ==
    Scanned =>
        /\ \A k \in LeftKeys : \A p \in IgnoredDirs(src) : ~IsPrefix(p, k)
        /\ \A k \in RightKeys : \A p \in IgnoredDirs(tgt0) : ~IsPrefix(p, k)
        /\ \A q \in InIgnored(src) : tgt0[q].kind = "none" => tgt[q].kind = "none"
        /\ \A q \in InIgnored(tgt0) : tgt[q] = tgt0[q]

\* the calls of _copy_music_changed that write a key's target file
ChangedOps(k) ==
    {i \in 1..Len(trace) :
        /\ trace[i].stage = 3
        /\ trace[i].op \in {"tag_write", "encode", "copy_music"}
        /\ trace[i].path = TargetFile(k)}

\* what the decision table asks for a changed key
ExpectedOp(k) ==
    LET ext_left == Item(comp.music_left, k).ext
        tl == TagsLeft(src[WithExt(k, ext_left)], ext_left).val
        tr == id3_tags_as_dict(tgt0[TargetFile(k)].tags).val
    IN  IF tl # tr THEN "tag_write"
        ELSE IF Lower(ext_left) = ".flac" THEN "encode"
        ELSE "copy_music"

\* _copy_music_changed has run: to its end, or to its assertion
ChangedStageRan ==
    \/ pc \in {"copy_music_leftonly", "remove_music", "remove_files", "remove_dirs", "done"}
    \/ pc = "aborted" /\ exc = "AssertionError"

\* C8: for every key of music_changed the stage performs exactly one of tag
\* write, encode and copy on the target file: a tag write when the tags
\* differ, else an encode of a .flac source and a copy of an .mp3 source.
C8_ChangedDecision ==
    ChangedStageRan =>
        \A k \in Changed :
            /\ Cardinality(ChangedOps(k)) = 1
            /\ \A i \in ChangedOps(k) : trace[i].op = ExpectedOp(k)

\* the calls that perform an action of the run
ActionOps ==
    {"makedirs", "copy_file", "tag_write", "encode", "copy_music",
     "remove_music", "remove_file", "rmdir"}

\* a call that acted or tried to; a makedirs that found the path taken is
\* no action and has no line
IsAction(e) == e.op \in ActionOps /\ e.res # "FileExistsError"

\* C11: with silent off, every action has its one log line, printed right
\* before the call that performs it, and every log line is followed by its
\* action (or by the exception that ends the run); with silent on, no log
\* line is printed.
C11_LogBeforeAct ==
    /\ silent => \A i \in 1..Len(trace) : trace[i].op # "log"
    /\ ~silent =>
           /\ \A i \in 1..Len(trace) :
                  IsAction(trace[i]) =>
                      /\ i > 1
                      /\ trace[i - 1].op = "log"
                      /\ trace[i - 1].stage = trace[i].stage
           /\ \A i \in 1..Len(trace) :
                  (trace[i].op = "log" /\ i < Len(trace)) =>
                      /\ IsAction(trace[i + 1])
                      /\ trace[i + 1].stage = trace[i].stage

\* C13: an encode whose encoder failed or wrote no file is the last call
\* of its run and the run is aborted: no tag write for the file and no
\* later action follow it, for a left-only key and for a changed key alike.
C13_EncodeFailureFatal ==
    \A i \in 1..Len(trace) :
        (trace[i].op = "encode" /\ trace[i].res = "failed") =>
            /\ i = Len(trace)
            /\ pc = "aborted"

\* C14: when a run has gone through all seven stages, a fresh scan of the
\* two trees finds the same audio keys, the same other-file keys and the
\* same directory keys on both sides.
C14_MirrorPostcondition ==
    pc = "done" =>
        LET l == get_files_dirs(src)
            r == get_files_dirs(tgt)
        IN  /\ KeysOf(r.music) = KeysOf(l.music)
            /\ KeysOf(r.rest) = KeysOf(l.rest)
            /\ KeysOf(r.dirs) = KeysOf(l.dirs)

\* the tags of a key's source file, as the run reads them
SourceTags(k) ==
    TagsLeft(src[WithExt(k, Item(comp.music_left, k).ext)],
             Item(comp.music_left, k).ext).val

TagWritten(k) ==
    \E i \in 1..Len(trace) :
        trace[i].op = "tag_write" /\ trace[i].path = TargetFile(k)

\* C15: once the tags of a changed key have been written onto its target
\* file, the tags read from the target file are the tags of the source
\* file, whatever fields and frames the target file had before.
C15_TagUpdateConverges ==
    Scanned =>
        \A k \in Changed :
            TagWritten(k) =>
                id3_tags_as_dict(tgt[TargetFile(k)].tags).val = SourceTags(k)

\* C16: when _copy_dirs is through, every key of dirs_to_copy is a
\* directory of the target; no os.makedirs that found a regular file in its
\* way is passed over; and no copy of stages 2 to 4 fails for want of the
\* directory it writes into.
C16_DestinationDirExists ==
    /\ pc = "copy_files" =>
           \A d \in KeysOf(comp.dirs_to_copy) : Kind(tgt, d) = "dir"
    /\ \A i \in 1..Len(trace) :
           /\ (trace[i].op = "makedirs" /\ trace[i].res = "FileExistsError")
                  => Kind(tgt0, trace[i].path) = "dir"
           /\ trace[i].op \in {"copy_file", "copy_music"}
                  => trace[i].res \notin {"FileNotFoundError", "NotADirectoryError"}

\* C18: no step of a run, scan, diff or apply stage, completed or aborted,
\* changes the source tree: its directories, its files, their tags and
\* their times stay as they were.
C18_SourceReadOnly == [][src' = src]_vars

\* a run that wrote to the target from a source that has files, and then
\* aborted
C18_Witness ==
    /\ pc = "aborted"
    /\ \E p \in Paths : src[p].kind = "file"
    /\ \E i \in 1..Len(trace) : Category(trace[i].op) = 2 /\ trace[i].res = "ok"

(***************************************************************************)
(* The tag canonicalizer as a state machine: a field set is written to a   *)
(* frame container, and a frame container is read back as a field set.     *)
(***************************************************************************)
FieldNames == {FieldOrder[i] : i \in 1..Len(FieldOrder)}

TagValues == {<<"1">>, <<"1", Slash, "2">>}

ValueLists == UNION {[1..n -> TagValues] : n \in 1..MaxVals}

FieldSets ==
    UNION {[dom -> ValueLists] :
           dom \in {x \in SUBSET FieldNames : Cardinality(x) <= MaxFields}}

\* containers as found in a file: empty, fresh from LAME, and with frames
\* that have no description or no text, with and without artist and title
Containers ==
    {<<>>, LameTags,
     <<PRIV>>,
     <<TextFrame("TPE1", <<<<"1">>>>), APIC("cover")>>,
     <<TextFrame("TPE1", <<<<"1">>>>), TextFrame("TIT2", <<<<"2">>>>), PRIV,
       APIC("cover"), TXXX("mood", <<<<"1">>>>)>>}

InitTag ==
    /\ tpc = "start"
    /\ tfields \in FieldSets
    /\ tframes \in Containers
    /\ tinit = tframes
    /\ tback = EmptyDict
    /\ terr = NoError
    /\ SyncIdle

\* copy_tag_dict_to_mp3(mp3_thing, tfields)
TagWrite ==
    /\ tpc = "start"
    /\ LET r == copy_tag_dict_to_mp3(tframes, tfields)
       IN  /\ tframes' = IF r.err = NoError THEN r.val ELSE tframes   \* save()
           /\ terr' = r.err
           /\ tpc' = IF r.err = NoError THEN "written" ELSE "error"
    /\ UNCHANGED <<tfields, tinit, tback, syncvars>>

\* id3_tags_as_dict(mp3_thing.tags), of the container as found or as written
TagRead ==
    /\ tpc \in {"start", "written"}
    /\ LET r == id3_tags_as_dict(tframes)
       IN  /\ tback' = IF r.err = NoError THEN r.val ELSE tback
           /\ terr' = r.err
           /\ tpc' = IF r.err # NoError THEN "error"
                     ELSE IF tpc = "written" THEN "back" ELSE "read"
    /\ UNCHANGED <<tfields, tframes, tinit, syncvars>>

NextTag == TagWrite \/ TagRead

SpecTag == InitTag /\ [][NextTag]_vars

(***************************************************************************)
(* Claims about the tag canonicalizer (specification SpecTag)              *)
(***************************************************************************)
WroteToEmpty == tinit = <<>> /\ tpc \in {"written", "back", "error"}

\* the number/total pairs: field names and the number frame's id
TotalPairs ==
    {<<"tracknumber", "tracktotal", "TRCK">>, <<"discnumber", "disctotal", "TPOS">>}

HasPair(d, pr) == {pr[1], pr[2]} \subseteq DOMAIN d

\* C9: a field set with a number field and its total field, written to an
\* empty container and read back, gives the original number and total
\* fields with their original values; the frame form holds one combined
\* 'N/M' number frame and no total frame.  Stated for every such field set,
\* so neither conversion may raise.
C9_TotalMergeRoundTrip ==
    \A pr \in TotalPairs :
        (WroteToEmpty /\ HasPair(tfields, pr)) =>
            /\ tpc # "error"
            /\ <<"TXXX", pr[2]>> \notin Keys(tframes)
            /\ <<pr[3], "">> \in Keys(tframes)
            /\ Lookup(tframes, <<pr[3], "">>).text =
                   <<JoinSlash(tfields[pr[1]][1], tfields[pr[2]][1])>>
            /\ tpc = "back" =>
                   /\ HasPair(tback, pr)
                   /\ tback[pr[1]] = tfields[pr[1]]
                   /\ tback[pr[2]] = tfields[pr[2]]

\* C10: a field set written to an empty container and read back is the
\* original field set: same keys, same ordered values per key.
C10_TagRoundTrip ==
    WroteToEmpty =>
        /\ tpc # "error"
        /\ tpc = "back" => tback = tfields

\* a frame that id3_tags_as_dict cannot turn into a field
Malformed(fr) ==
    /\ fr.FrameID \notin DOMAIN id3_to_vorbis_map => fr.FrameID \notin id3_frames_to_ignore
    /\ \/ fr.FrameID \notin DOMAIN id3_to_vorbis_map /\ ~HasDesc(fr)
       \/ ~HasText(fr)

HasMalformed(c) == \E i \in 1..Len(c) : Malformed(c[i])

WellFormedFrames(c) == SelectSeq(c, LAMBDA fr : ~Malformed(fr))

\* C12: reading a container that holds a frame without a description or
\* without a text never ends in the KeyError of the warning line, whether
\* or not the container has an artist and a title frame, and gives the
\* fields of the container's other frames.
C12_MalformedFrameSkipped ==
    (tpc \in {"read", "back", "error"} /\ HasMalformed(tframes)) =>
        /\ terr # "KeyError"
        /\ tpc # "error" => tback = id3_tags_as_dict(WellFormedFrames(tframes)).val

(***************************************************************************)
(* Claims about the mirror over several runs (specification SpecMirror)    *)
(***************************************************************************)
\* the extension of a file of the target that its scan takes for audio
AudioExts(tree) ==
    {SplitExt(BaseName(p))[2] :
        p \in {q \in Paths : /\ tree[q].kind = "file"
                             /\ Lower(SplitExt(BaseName(q))[2]) \in {".flac", ".mp3"}}}

\* C17: from an empty target, over runs with any changes of the source
\* between them, every audio file of the target has the extension '.mp3'
\* exactly, and the assertion of _copy_music_changed never fails.
C17_TargetCompressedOnly ==
    /\ AudioExts(tgt) \subseteq {".mp3"}
    /\ exc # "AssertionError"

\* a later run has updated the target's a.mp3 from a source file a.MP3
C17_Witness ==
    /\ run >= 2
    /\ pc = "done"
    /\ Changed # {}
    /\ src[<<"a.MP3">>].kind = "file"
    /\ tgt[<<"a.mp3">>].kind = "file"

====
